---- MODULE Spec2Model ----
(***************************************************************************)
(* A model of src/data_fetcher.py: the DataManager (TTL cache around the   *)
(* source fallback coordinator), the data sources it iterates, and the     *)
(* CompanyNameLookup ticker -> name resolver with its in-memory cache;     *)
(* and of the filters of src/streamlit_app.py.                             *)
(*                                                                         *)
(* Time is counted in seconds.  Python's None is the empty tuple and a     *)
(* present value x is <<x>>.  A pandas DataFrame is the sequence of its    *)
(* rows.  A label (the second component of the returned tuple) is the      *)
(* record of its text and of the timestamp interpolated in it.             *)
(*                                                                         *)
(* Every call is one step and takes no time: the clock advances between    *)
(* calls only (Tick), so the two datetime.now() of get_data read the same  *)
(* value.  Within one session calls do not overlap.                        *)
(*                                                                         *)
(* Spec is the DataManager with its sources; SpecNames is the              *)
(* CompanyNameLookup alone, whose cache no DataManager operation reads.    *)
(* SpecPatterns is the pattern stage of the HTML source, record by record; *)
(* SpecFilters is the dashboard's create_filters and apply_filters;        *)
(* SpecAlias is a caller of get_data that changes, in place, the frame it  *)
(* was handed; SpecThreads is several sessions' threads inside get_data,   *)
(* the one place where calls overlap; SpecSteps is get_data one network    *)
(* call at a time, and SpecStepsFair adds that every such call returns.    *)
(* The variables op, calls, passes, fresh, ret, pre (and first, nameOp,    *)
(* nameRet, namePre, lookups) record the last call for the properties; the *)
(* program does not hold them.                                             *)
(***************************************************************************)
EXTENDS Integers, Sequences, FiniteSets, TLC

VARIABLES
  fetchers,         \* DataManager.fetchers: the configured source list (kinds)
  cached_data,      \* DataManager.cached_data: None or a DataFrame
  last_fetch_time,  \* DataManager.last_fetch_time: None or a time
  now,              \* the wall clock, datetime.now(), in seconds
  op,               \* the last call made on the DataManager and its arguments
  calls,            \* the calls the last call made on the sources, in order,
                    \* each with what the source answered
  passes,           \* how many times the last call ran fetch_fresh_data
  fresh,            \* what fetch_fresh_data returned to the last call, or None
  ret,              \* what the last call returned (or raised)
  pre,              \* cached_data, last_fetch_time and now before the last call
  cache,            \* CompanyNameLookup.cache: normalized ticker -> name
  lookups,          \* network lookups issued so far, per normalized ticker
  first,            \* the name the first call for a normalized ticker returned
  nameOp,           \* the last get_company_name call: its argument and the reply
  nameRet,          \* what the last get_company_name call returned
  namePre,          \* CompanyNameLookup.cache before the last call
  page_text,        \* the page text handed to _extract_content_patterns: its
                    \* money tokens and its ticker tokens, in page order
  trades,           \* what _extract_content_patterns returned, or None
  table,            \* the DataFrame the dashboard filters
  filters,          \* the filters the sidebar returned, or None
  shown,            \* what apply_filters returned, or None
  held,             \* the DataFrame object the caller of get_data got back
  stored,           \* the frame the last successful refresh put in the cache
  pc,               \* where each thread stands inside get_data
  at,               \* where the pass in progress stands: the source it is
                    \* at and the call it is waiting for, or None
  served            \* what the HTML source was served during the last call:
                    \* the reply's status and the page, or None

dmVars == <<fetchers, cached_data, last_fetch_time, now, op, calls, passes,
            fresh, ret, pre>>
nameVars == <<cache, lookups, first, nameOp, nameRet, namePre>>
patVars == <<page_text, trades>>
filterVars == <<table, filters, shown>>
aliasVars == <<held, stored>>
\* the variables no DataManager or CompanyNameLookup call touches
stepVars == <<at, served>>
extVars == <<patVars, filterVars, aliasVars, pc, stepVars>>
vars == <<dmVars, nameVars, extVars>>

-----------------------------------------------------------------------------
(* Bounds of the model *)

\* the most rows a test double of a source returns
MaxRows == 2
\* the clock stops advancing here (seconds)
MaxNow == 3602

-----------------------------------------------------------------------------
(* Python values *)

None == <<>>
Some(x) == <<x>>
IsNone(o) == o = <<>>
Val(o) == o[1]

\* pd.DataFrame(): no rows
EmptyFrame == <<>>
\* DataFrame.empty
IsEmpty(df) == Len(df) = 0
\* the DataFrame of n rows that the source named src produced
Frame(src, n) == [k \in 1..n |-> [src |-> src, id |-> k]]

Min(a, b) == IF a < b THEN a ELSE b
Max(a, b) == IF a > b THEN a ELSE b

-----------------------------------------------------------------------------
(* The sources: CapitolTradesHTMLFetcher, CapitolTradesAPIFetcher and any  *)
(* other implementation of DataFetcherBase (a test double)                 *)

Kinds == {"html", "api", "stub"}

\* the outcome of one requests GET: a 200, another status, or an exception
Http == {"200", "500", "exc"}

StubNames == <<"Mock source 1", "Mock source 2">>

\* fetcher.name
SourceName(kind, i) ==
  CASE kind = "html" -> "Capitol Trades Enhanced HTML Scraper"
    [] kind = "api"  -> "Capitol Trades API"
    [] OTHER         -> StubNames[i]

\* the pattern stage of the HTML source needs more than this many tokens
PatternThreshold == 5
\* the pattern stage keeps this many tokens of each list
PatternSlice == 20
\* the pattern stage synthesizes at most this many records
PatternCap == 10

\* token counts a page may hold
TokenCounts == {0, PatternThreshold, PatternThreshold + 1, PatternCap + 1}

\* a fetched page: whether a script holds an accepted embedded-data
\* candidate, and how many money and ticker tokens its text holds
Pages == [embedded : BOOLEAN, money : TokenCounts, stocks : TokenCounts]

HtmlName == SourceName("html", 1)

\* _process_embedded_data: the structure is unknown, no rows
ProcessEmbeddedData == EmptyFrame

\* _generate_pattern_based_trades: one row per paired token, at most PatternCap
GeneratePatternBasedTrades(nmoney, nstocks) ==
  Frame(HtmlName, Min(PatternCap, Min(nmoney, nstocks)))

\* _extract_content_patterns
ExtractContentPatterns(page) ==
  IF page.money > PatternThreshold /\ page.stocks > PatternThreshold
  THEN GeneratePatternBasedTrades(Min(page.money, PatternSlice),
                                  Min(page.stocks, PatternSlice))
  ELSE EmptyFrame

\* CapitolTradesHTMLFetcher.is_available / CapitolTradesAPIFetcher.is_available:
\* an exception is caught and reported as unavailable
ProbeIsAvailable(http) == IF http = "200" THEN "true" ELSE "false"

\* a faulty variant: a page whose embedded data yields no row is handed to
\* the pattern stage
HtmlFetchDataFallsBack(http, page) ==
  IF http = "exc" THEN EmptyFrame
  ELSE IF http # "200" THEN EmptyFrame
  ELSE IF page.embedded /\ ~IsEmpty(ProcessEmbeddedData) THEN ProcessEmbeddedData
  ELSE ExtractContentPatterns(page)

\* CapitolTradesHTMLFetcher.fetch_data: never raises
HtmlFetchData(http, page) ==
  IF http = "exc" THEN EmptyFrame
  ELSE IF http # "200" THEN EmptyFrame
  ELSE IF page.embedded THEN ProcessEmbeddedData
  ELSE ExtractContentPatterns(page)

\* CapitolTradesAPIFetcher.fetch_data: a placeholder, empty whatever the reply
ApiFetchData(http) == EmptyFrame

\* What a source can answer during one call: avail is what is_available()
\* returns ("true", "false") or that it raises ("raise"); raised says
\* fetch_data() raises, and data is what it returns otherwise.
HtmlAnswers ==
  { r \in [avail : {"true", "false"}, raised : {FALSE},
           data : { Frame(HtmlName, n) : n \in 0..PatternCap }] :
    \E p \in Http, g \in Http, page \in Pages :
      r.avail = ProbeIsAvailable(p) /\ r.data = HtmlFetchData(g, page) }

ApiAnswers ==
  { r \in [avail : {"true", "false"}, raised : {FALSE}, data : {EmptyFrame}] :
    \E p \in Http, g \in Http :
      r.avail = ProbeIsAvailable(p) /\ r.data = ApiFetchData(g) }

\* a test double answers anything
StubAnswers(i) ==
  { [avail |-> a, raised |-> FALSE, data |-> Frame(StubNames[i], n)] :
    a \in {"true", "false", "raise"}, n \in 0..MaxRows }
  \cup { [avail |-> a, raised |-> TRUE, data |-> EmptyFrame] :
         a \in {"true", "false", "raise"} }

Answers(k, i) ==
  CASE k = "html" -> HtmlAnswers
    [] k = "api"  -> ApiAnswers
    [] OTHER      -> StubAnswers(i)

\* the answers of the first n sources of the list fs during one call
RECURSIVE EnvsUpTo(_, _)
EnvsUpTo(fs, n) ==
  IF n = 0 THEN {<<>>}
  ELSE { Append(e, a) : e \in EnvsUpTo(fs, n - 1), a \in Answers(fs[n], n) }

\* the answers of every source of the list fs during one call
Envs(fs) == EnvsUpTo(fs, Len(fs))

\* DataManager.__init__: the list the program ships with
DefaultFetchers == <<"html", "api">>

\* the source lists a DataManager may be configured with: the shipped one,
\* or test doubles in its place
FetcherLists == {DefaultFetchers, <<"stub">>, <<"stub", "stub">>}

-----------------------------------------------------------------------------
(* DataManager *)

\* self.cache_duration = timedelta(minutes=30), in seconds
CacheDuration == 1800

\* a label: its text and the timestamp the text interpolates
SourceLabel(name) == [text |-> name, at |-> None]
NoSourceLabel == [text |-> "No source available", at |-> None]
CachedLabel(t) == [text |-> "Cached data (last updated: ", at |-> t]

\* a returned (DataFrame, label) tuple, or an exception reaching the caller
Returned(df, label) == [raised |-> FALSE, data |-> df, label |-> label]
Raised == [raised |-> TRUE, data |-> EmptyFrame, label |-> NoSourceLabel]

\* one call on a source and its outcome: is_available() raised, or returned
\* avail; fetch_data() raised, or returned data
AvailCall(i, a) == [src |-> i, method |-> "is_available", raised |-> a = "raise",
                    avail |-> a = "true", data |-> EmptyFrame]
FetchCall(i, a) == [src |-> i, method |-> "fetch_data", raised |-> a.raised,
                    avail |-> TRUE, data |-> a.data]

\* a faulty variant: an unavailable source is fetched from all the same
SkipsSourceNever(avail) == FALSE

\* fetch_fresh_data, line 329: "if not fetcher.is_available(): continue"
SkipsSource(avail) == avail # "true"

\* a faulty variant: the loop returns whatever the first available source gave
ShortCircuitsAlways(df) == TRUE

\* a faulty variant: the loop goes on after a non-empty result
ShortCircuitsNever(df) == FALSE

\* fetch_fresh_data, line 335: "if not data.empty: return data, fetcher.name"
ShortCircuits(df) == ~IsEmpty(df)

\* a faulty variant: is_available() is called outside the try block
CatchesFetchOnly(method) == method = "fetch_data"

\* fetch_fresh_data, line 341: the try block of the loop body encloses both
\* calls, and "except Exception" catches what either raises
Catches(method) == method \in {"is_available", "fetch_data"}

\* a faulty variant: exhaustion is reported by raising
ExhaustedRaises(log) == [raised |-> TRUE, data |-> EmptyFrame,
                         label |-> NoSourceLabel, calls |-> log]

\* fetch_fresh_data, line 347: every source was skipped or empty
Exhausted(log) == [raised |-> FALSE, data |-> EmptyFrame,
                   label |-> NoSourceLabel, calls |-> log]

\* fetch_fresh_data from source i on, log being the calls made so far
RECURSIVE Coordinate(_, _, _, _)
Coordinate(fs, e, i, log) ==
  IF i > Len(fs) THEN Exhausted(log)
  ELSE
    LET log1 == Append(log, AvailCall(i, e[i].avail))
        log2 == Append(log1, FetchCall(i, e[i]))
        escaped(l) == [raised |-> TRUE, data |-> EmptyFrame,
                       label |-> NoSourceLabel, calls |-> l]
    IN  IF e[i].avail = "raise"
        THEN IF Catches("is_available")
             THEN Coordinate(fs, e, i + 1, log1)
             ELSE escaped(log1)
        ELSE IF SkipsSource(e[i].avail)
        THEN Coordinate(fs, e, i + 1, log1)
        ELSE IF e[i].raised
        THEN IF Catches("fetch_data")
             THEN Coordinate(fs, e, i + 1, log2)
             ELSE escaped(log2)
        ELSE IF ShortCircuits(e[i].data)
        THEN [raised |-> FALSE, data |-> e[i].data,
              label |-> SourceLabel(SourceName(fs[i], i)), calls |-> log2]
        ELSE Coordinate(fs, e, i + 1, log2)

\* DataManager.fetch_fresh_data
FetchFreshData(fs, e) == Coordinate(fs, e, 1, <<>>)

\* a faulty variant: the age of the cache is not looked at
NeedsRefreshNoTTL(force, lft, cd, t) ==
  force \/ IsNone(lft) \/ IsNone(cd)

\* a faulty variant: force_refresh is not looked at
NeedsRefreshNoForce(force, lft, cd, t) ==
  IsNone(lft) \/ IsNone(cd) \/ t - Val(lft) > CacheDuration

\* a faulty variant: an entry as old as the TTL is refreshed
NeedsRefreshAtTTL(force, lft, cd, t) ==
  force \/ IsNone(lft) \/ IsNone(cd) \/ t - Val(lft) >= CacheDuration

\* get_data, lines 353-356: whether the cache must be refreshed
NeedsRefresh(force, lft, cd, t) ==
  \/ force
  \/ IsNone(lft)
  \/ IsNone(cd)
  \/ t - Val(lft) > CacheDuration

\* a faulty variant: a failed fetch is always answered with the cached label
OnFetchFailureAlwaysCached(cd, lft, label) ==
  Returned(IF ~IsNone(cd) THEN Val(cd) ELSE EmptyFrame, CachedLabel(lft))

\* a faulty variant: the prior entry is not served when the fetch fails
OnFetchFailureNoCache(cd, lft, label) == Returned(EmptyFrame, label)

\* get_data, lines 366-369: the fetch came back empty
OnFetchFailure(cd, lft, label) ==
  IF ~IsNone(cd) THEN Returned(Val(cd), CachedLabel(lft))
  ELSE Returned(EmptyFrame, label)

\* get_data, line 372: serve the cache
ServeCache(cd, lft) ==
  Returned(IF ~IsNone(cd) THEN Val(cd) ELSE EmptyFrame, CachedLabel(lft))

\* a faulty variant: the records are not counted
CacheStatusNoCount(lft, cd, t) ==
  LET cache_age == t - Val(lft)
      cache_remaining == CacheDuration - cache_age
  IN  [last_updated |-> Val(lft),
       cache_age_minutes |-> cache_age \div 60,
       cache_valid |-> cache_remaining > 0,
       cache_remaining_minutes |-> Max(0, cache_remaining \div 60),
       total_records |-> 0]

\* get_cache_status, lines 379-388 (last_fetch_time is not None)
CacheStatus(lft, cd, t) ==
  LET cache_age == t - Val(lft)
      cache_remaining == CacheDuration - cache_age
  IN  [last_updated |-> Val(lft),
       cache_age_minutes |-> cache_age \div 60,
       cache_valid |-> cache_remaining > 0,
       cache_remaining_minutes |-> Max(0, cache_remaining \div 60),
       total_records |-> IF ~IsNone(cd) THEN Len(Val(cd)) ELSE 0]

\* get_cache_status, line 377
NoStatus == [status |-> "No data fetched yet"]

Snapshot == [cached_data |-> cached_data, last_fetch_time |-> last_fetch_time,
             now |-> now]

\* what fetch_fresh_data can do on the source list fs: its result and the
\* calls it made, for every way the sources may answer
Passes(fs) == { FetchFreshData(fs, e) : e \in Envs(fs) }

\* a faulty variant: the fetch time is recorded whether the fetch succeeded
\* or not
RefreshStampsFailure(r) ==
  /\ calls' = r.calls
  /\ passes' = 1
  /\ IF r.raised
     THEN /\ fresh' = None
          /\ ret' = Raised
          /\ UNCHANGED <<cached_data, last_fetch_time>>
     ELSE /\ fresh' = Some(Returned(r.data, r.label))
          /\ last_fetch_time' = Some(now)
          /\ IF ~IsEmpty(r.data)
             THEN /\ cached_data' = Some(r.data)
                  /\ ret' = Returned(r.data, r.label)
             ELSE /\ ret' = OnFetchFailure(cached_data, last_fetch_time, r.label)
                  /\ UNCHANGED cached_data

\* a faulty variant: whatever was fetched is stored, empty or not
RefreshStoresEmpty(r) ==
  /\ calls' = r.calls
  /\ passes' = 1
  /\ IF r.raised
     THEN /\ fresh' = None
          /\ ret' = Raised
          /\ UNCHANGED <<cached_data, last_fetch_time>>
     ELSE /\ fresh' = Some(Returned(r.data, r.label))
          /\ cached_data' = Some(r.data)
          /\ last_fetch_time' = Some(now)
          /\ ret' = Returned(r.data, r.label)

\* a faulty variant: a failed refresh drops the entry it could not renew
RefreshDropsOnFailure(r) ==
  /\ calls' = r.calls
  /\ passes' = 1
  /\ IF r.raised
     THEN /\ fresh' = None
          /\ ret' = Raised
          /\ UNCHANGED <<cached_data, last_fetch_time>>
     ELSE /\ fresh' = Some(Returned(r.data, r.label))
          /\ IF ~IsEmpty(r.data)
             THEN /\ cached_data' = Some(r.data)
                  /\ last_fetch_time' = Some(now)
                  /\ ret' = Returned(r.data, r.label)
             ELSE /\ cached_data' = None
                  /\ last_fetch_time' = None
                  /\ ret' = Returned(r.data, r.label)

\* get_data, lines 358-369: refresh the cache, r being the coordinator's pass
Refresh(r) ==
  /\ calls' = r.calls
  /\ passes' = 1
  /\ IF r.raised
     THEN /\ fresh' = None
          /\ ret' = Raised
          /\ UNCHANGED <<cached_data, last_fetch_time>>
     ELSE /\ fresh' = Some(Returned(r.data, r.label))
          /\ IF ~IsEmpty(r.data)
             THEN /\ cached_data' = Some(r.data)
                  /\ last_fetch_time' = Some(now)
                  /\ ret' = Returned(r.data, r.label)
             ELSE /\ ret' = OnFetchFailure(cached_data, last_fetch_time, r.label)
                  /\ UNCHANGED <<cached_data, last_fetch_time>>

\* DataManager.get_data(force_refresh): what it does to the DataManager
GetDataCall(force) ==
  /\ op' = [name |-> "get_data", force |-> force]
  /\ pre' = Snapshot
  /\ UNCHANGED <<fetchers, now, nameVars>>
  /\ IF NeedsRefresh(force, last_fetch_time, cached_data, now)
     THEN \E r \in Passes(fetchers) : Refresh(r)
     ELSE /\ calls' = <<>>
          /\ passes' = 0
          /\ fresh' = None
          /\ ret' = ServeCache(cached_data, last_fetch_time)
          /\ UNCHANGED <<cached_data, last_fetch_time>>

\* DataManager.get_data(force_refresh)
GetData(force) == GetDataCall(force) /\ UNCHANGED extVars

\* DataManager.fetch_fresh_data(), called directly
FetchFresh ==
  \E r \in Passes(fetchers) :
    /\ op' = [name |-> "fetch_fresh_data", force |-> FALSE]
    /\ pre' = Snapshot
    /\ calls' = r.calls
    /\ passes' = 1
    /\ fresh' = IF r.raised THEN None ELSE Some(Returned(r.data, r.label))
    /\ ret' = IF r.raised THEN Raised ELSE Returned(r.data, r.label)
    /\ UNCHANGED <<fetchers, cached_data, last_fetch_time, now, nameVars, extVars>>

\* a faulty variant: reporting the status drops an entry older than the TTL
GetCacheStatusEvicts ==
  /\ op' = [name |-> "get_cache_status", force |-> FALSE]
  /\ pre' = Snapshot
  /\ calls' = <<>>
  /\ passes' = 0
  /\ fresh' = None
  /\ ret' = IF IsNone(last_fetch_time) THEN NoStatus
            ELSE CacheStatus(last_fetch_time, cached_data, now)
  /\ IF ~IsNone(last_fetch_time) /\ now - Val(last_fetch_time) > CacheDuration
     THEN cached_data' = None /\ last_fetch_time' = None
     ELSE UNCHANGED <<cached_data, last_fetch_time>>
  /\ UNCHANGED <<fetchers, now, nameVars, extVars>>

\* DataManager.get_cache_status()
GetCacheStatus ==
  /\ op' = [name |-> "get_cache_status", force |-> FALSE]
  /\ pre' = Snapshot
  /\ calls' = <<>>
  /\ passes' = 0
  /\ fresh' = None
  /\ ret' = IF IsNone(last_fetch_time) THEN NoStatus
            ELSE CacheStatus(last_fetch_time, cached_data, now)
  /\ UNCHANGED <<fetchers, cached_data, last_fetch_time, now, nameVars, extVars>>

\* the clock advances between two calls
Steps == {CacheDuration - 1, CacheDuration, CacheDuration + 1}

Tick ==
  \E d \in Steps :
    /\ now + d <= MaxNow
    /\ now' = now + d
    /\ op' = [name |-> "tick", force |-> FALSE]
    /\ pre' = Snapshot
    /\ calls' = <<>>
    /\ passes' = 0
    /\ fresh' = None
    /\ ret' = <<>>
    /\ UNCHANGED <<fetchers, cached_data, last_fetch_time, nameVars, extVars>>

-----------------------------------------------------------------------------
(* CompanyNameLookup *)

\* A string is the sequence of its characters.
Chars == {"a", "A", "b", " "}

\* str.upper(), one character
UpperChar(c) == CASE c = "a" -> "A" [] c = "b" -> "B" [] OTHER -> c

\* str.upper()
Upper(str) == [k \in 1..Len(str) |-> UpperChar(str[k])]

\* str.strip(): without its leading and trailing whitespace
RECURSIVE Strip(_)
Strip(str) ==
  IF str = <<>> THEN str
  ELSE IF Head(str) = " " THEN Strip(Tail(str))
  ELSE IF str[Len(str)] = " " THEN Strip(SubSeq(str, 1, Len(str) - 1))
  ELSE str

\* get_company_name, line 39: ticker.upper().strip()
Normalize(str) == Strip(Upper(str))

\* get_company_name, line 36: "if not ticker" holds of None and of ""
IsFalsy(ticker) == IsNone(ticker) \/ Val(ticker) = <<>>

\* a name: its text and the ticker the text interpolates
Name(text) == [text |-> text, of |-> <<>>]
UnknownCompany == Name("Unknown Company")
CompanyFor(key) == [text |-> "Company for ", of |-> key]

\* the arguments get_company_name is called with: None or a string
Tickers == {None} \cup { Some(str) : str \in
              {<<>>, <<" ">>, <<"a">>, <<"A">>, <<" ", "a", " ">>, <<"b">>} }

\* the most results one reply of the lookup service lists
MaxResults == 2

\* one entry of a reply's "results": symbol and name, either may be missing
ResultPool ==
  { [symbol |-> Some(<<"a">>), name |-> Some(Name("Alpha Inc"))],
    [symbol |-> Some(<<"B">>), name |-> Some(Name("Beta Corp"))],
    [symbol |-> Some(<<"A">>), name |-> None],
    [symbol |-> None, name |-> Some(Name("Gamma Ltd"))] }

ResultLists == UNION { [1..n -> ResultPool] : n \in 0..MaxResults }

\* the replies of the lookup service: an exception (timeout, connection
\* error, malformed JSON), a status other than 200, or a 200 with results
Replies ==
  { [kind |-> "exc", results |-> <<>>], [kind |-> "500", results |-> <<>>] }
  \cup { [kind |-> "200", results |-> rs] : rs \in ResultLists }

\* result.get('symbol', '')
SymbolOf(result) == IF IsNone(result.symbol) THEN <<>> ELSE Val(result.symbol)

\* result.get('name', f"Company for {ticker}")
NameOf(result, key) == IF IsNone(result.name) THEN CompanyFor(key) ELSE Val(result.name)

\* get_company_name, lines 56-57: the results whose symbol is the ticker
ExactMatches(key, results) ==
  { k \in 1..Len(results) : Upper(SymbolOf(results[k])) = key }

\* get_company_name, lines 45-81 (a cache miss): the name the reply leads to
Resolve(key, reply) ==
  IF reply.kind = "exc" THEN CompanyFor(key)
  ELSE IF reply.kind = "200" /\ Len(reply.results) > 0
  THEN LET exact == ExactMatches(key, reply.results) IN
       IF exact # {}
       THEN NameOf(reply.results[CHOOSE k \in exact : \A j \in exact : k <= j], key)
       ELSE NameOf(reply.results[1], key)
  ELSE CompanyFor(key)

\* self.cache[key] = name
Store(c, key, name) ==
  [k \in DOMAIN c \cup {key} |-> IF k = key THEN name ELSE c[k]]

\* one more network lookup for key
Count(l, key) ==
  [k \in DOMAIN l \cup {key} |-> IF k \in DOMAIN l
                                  THEN (IF k = key THEN l[k] + 1 ELSE l[k])
                                  ELSE 1]

\* the name the first call for key returned
Remember(f, key, name) == IF key \in DOMAIN f THEN f ELSE Store(f, key, name)

\* get_company_name, line 42: "if ticker in self.cache"
IsCached(c, key) == key \in DOMAIN c

\* get_company_name, lines 36-37: the guard against an empty ticker
RejectsTicker(ticker) == IsFalsy(ticker)

\* CompanyNameLookup.get_company_name(ticker)
GetCompanyName ==
  \E ticker \in Tickers, reply \in Replies :
    /\ namePre' = cache
    /\ UNCHANGED <<dmVars, extVars>>
    /\ IF RejectsTicker(ticker)
       THEN /\ nameRet' = UnknownCompany
            /\ nameOp' = [ticker |-> ticker, looked_up |-> FALSE]
            /\ first' = IF IsNone(ticker) THEN first
                        ELSE Remember(first, Normalize(Val(ticker)), UnknownCompany)
            /\ UNCHANGED <<cache, lookups>>
       ELSE LET key == Normalize(Val(ticker)) IN
            IF IsCached(cache, key)
            THEN /\ nameRet' = cache[key]
                 /\ nameOp' = [ticker |-> ticker, looked_up |-> FALSE]
                 /\ first' = Remember(first, key, cache[key])
                 /\ UNCHANGED <<cache, lookups>>
            ELSE LET name == Resolve(key, reply) IN
                 /\ cache' = Store(cache, key, name)
                 /\ lookups' = Count(lookups, key)
                 /\ nameRet' = name
                 /\ nameOp' = [ticker |-> ticker, looked_up |-> TRUE]
                 /\ first' = Remember(first, key, name)

\* CompanyNameLookup.__init__
NameInit ==
  /\ cache = <<>>
  /\ lookups = <<>>
  /\ first = <<>>
  /\ nameOp = [ticker |-> None, looked_up |-> FALSE]
  /\ nameRet = UnknownCompany
  /\ namePre = <<>>

-----------------------------------------------------------------------------
(* The pattern stage of CapitolTradesHTMLFetcher, record by record.  A date  *)
(* string "YYYY-MM-DD" is the triple of its year, month and day; a date is  *)
(* the number of its day, day 0 being the day the clock starts; a page text *)
(* is the list of its money tokens and the list of its ticker tokens, as    *)
(* re.findall returns them.                                                 *)

SecondsPerDay == 86400

\* the days from the first day of the Gregorian era 0 (0000-03-01) to the
\* day the clock starts (1970-01-01), and the days of 400 years
EpochShift == 719468
DaysPerEra == 146097

\* strftime("%Y-%m-%d") of the day z: its year, month and day in the
\* Gregorian calendar
FormatDate(z) ==
  LET zz == z + EpochShift
      era == zz \div DaysPerEra
      doe == zz - era * DaysPerEra
      yoe == (doe - doe \div 1460 + doe \div 36524 - doe \div 146096) \div 365
      doy == doe - (365 * yoe + yoe \div 4 - yoe \div 100)
      mp == (5 * doy + 2) \div 153
      d == doy - (153 * mp + 2) \div 5 + 1
      m == IF mp < 10 THEN mp + 3 ELSE mp - 9
      y == yoe + era * 400 + (IF m <= 2 THEN 1 ELSE 0)
  IN  <<y, m, d>>

\* datetime.strptime(str, '%Y-%m-%d').date(), pd.to_datetime(str).date():
\* the day of a year, a month and a day
ParseDate(str) ==
  LET y == IF str[2] <= 2 THEN str[1] - 1 ELSE str[1]
      era == y \div 400
      yoe == y - era * 400
      mp == IF str[2] > 2 THEN str[2] - 3 ELSE str[2] + 9
      doy == (153 * mp + 2) \div 5 + str[3] - 1
      doe == yoe * 365 + yoe \div 4 - yoe \div 100 + doy
  IN  era * DaysPerEra + doe - EpochShift

\* (datetime.now() - timedelta(days)).strftime("%Y-%m-%d") at the time t:
\* the time of day is dropped
DateStr(t, days) == FormatDate((t - days * SecondsPerDay) \div SecondsPerDay)

\* what the money pattern of line 201 matches: a dollar amount, or a size
\* range (whose dash is written "-" here)
DollarToken == "$1,250.00"
RangeToken == "50K-100K"
MoneyTokens == {DollarToken, RangeToken}
DefaultTradeSize == "1K-15K"
DefaultPrice == "$150.00"

\* "K" in text, "$" in text
ContainsK(text) == text \in {RangeToken, DefaultTradeSize}
ContainsDollar(text) == text \in {DollarToken, DefaultPrice}

\* tokens the ticker pattern of line 204 matches
TickerTokens == << <<"A", "A", "B">>, <<"A", "B", "A">>, <<"B", "A", "A">> >>

\* money_matches of a page holding n money tokens, the first of kind k
MoneyMatches(n, k) ==
  [i \in 1..n |-> IF (i % 2 = 1) = (k = DollarToken) THEN DollarToken ELSE RangeToken]

\* stock_matches of a page holding n ticker tokens
StockMatches(n) == [i \in 1..n |-> TickerTokens[((i - 1) % Len(TickerTokens)) + 1]]

PageTexts ==
  { [money |-> MoneyMatches(n, k), stocks |-> StockMatches(m)] :
      n \in TokenCounts, m \in TokenCounts, k \in MoneyTokens }

\* _generate_pattern_based_trades, lines 230-234
Politicians ==
  << [name |-> "Nancy Pelosi", party |-> "Democrat", chamber |-> "House", state |-> "CA"],
     [name |-> "Dan Crenshaw", party |-> "Republican", chamber |-> "House", state |-> "TX"],
     [name |-> "Josh Gottheimer", party |-> "Democrat", chamber |-> "House", state |-> "NJ"] >>

\* random.randint(1, 30), random.randint(1, 15), random.randint(1, 30)
MaxTradeDays == 30
MaxDisclosureDays == 15
MaxReportingDelay == 30

\* what the random module hands out for one record; the two ends of every
\* range stand for the range
Draws ==
  [politician : 1..Len(Politicians),
   trade_days : {1, MaxTradeDays},
   disclosure_days : {1, MaxDisclosureDays},
   reporting_delay : {1, MaxReportingDelay},
   transaction_type : {"Buy", "Sell"}]

\* the draws of the records of one call: those of the odd and of the even ones
DrawLists == { <<d1, d2>> : d1 \in Draws, d2 \in Draws }

\* what the lookup service answers during one call
PatternReplies ==
  { [kind |-> "exc", results |-> <<>>],
    [kind |-> "200",
     results |-> << [symbol |-> Some(TickerTokens[1]), name |-> Some(Name("Alpha Inc"))] >>] }

\* get_company_name(ticker) on the cache c: the name it returns
LookupName(c, ticker, reply) ==
  IF RejectsTicker(Some(ticker)) THEN UnknownCompany
  ELSE LET key == Normalize(ticker) IN
       IF IsCached(c, key) THEN c[key] ELSE Resolve(key, reply)

\* get_company_name(ticker) on the cache c: the cache it leaves
LookupCache(c, ticker, reply) ==
  IF RejectsTicker(Some(ticker)) THEN c
  ELSE LET key == Normalize(ticker) IN
       IF IsCached(c, key) THEN c ELSE Store(c, key, Resolve(key, reply))

\* _generate_pattern_based_trades, lines 244-260: the record of one pair
TradeOf(money, ticker, company, d, t) ==
  [politician_name |-> Politicians[d.politician].name,
   party |-> Politicians[d.politician].party,
   chamber |-> Politicians[d.politician].chamber,
   state |-> Politicians[d.politician].state,
   district |-> "Multiple",
   company |-> company,
   ticker |-> ticker,
   sector |-> "Technology",
   trade_date |-> DateStr(t, d.trade_days),
   disclosure_date |-> DateStr(t, d.disclosure_days),
   reporting_delay |-> d.reporting_delay,
   transaction_type |-> d.transaction_type,
   trade_size |-> IF ContainsK(money) THEN money ELSE DefaultTradeSize,
   price |-> IF ContainsDollar(money) THEN money ELSE DefaultPrice,
   owner |-> "Self"]

\* _generate_pattern_based_trades, the loop of line 237 from its i-th turn:
\* acc holds the records made so far and the lookup's cache
RECURSIVE TradesFrom(_, _, _, _, _, _, _, _)
TradesFrom(i, n, money_amounts, stock_symbols, rng, reply, t, acc) ==
  IF i > n THEN acc
  ELSE LET ticker == stock_symbols[i]
           d == rng[((i - 1) % Len(rng)) + 1]
           company == LookupName(acc.cache, ticker, reply)
       IN  TradesFrom(i + 1, n, money_amounts, stock_symbols, rng, reply, t,
                      [trades |-> Append(acc.trades,
                                         TradeOf(money_amounts[i], ticker, company, d, t)),
                       cache |-> LookupCache(acc.cache, ticker, reply)])

\* _generate_pattern_based_trades: the records, and the lookup's cache after
GenerateTradeRecords(money_amounts, stock_symbols, rng, reply, t, c) ==
  TradesFrom(1, Min(PatternCap, Min(Len(money_amounts), Len(stock_symbols))),
             money_amounts, stock_symbols, rng, reply, t,
             [trades |-> <<>>, cache |-> c])

\* list[:20]
Slice(list) == SubSeq(list, 1, Min(Len(list), PatternSlice))

\* a faulty variant: the threshold is met by PatternThreshold tokens of each
ExtractTradeRecordsAtThreshold(text, rng, reply, t, c) ==
  IF Len(text.money) >= PatternThreshold /\ Len(text.stocks) >= PatternThreshold
  THEN GenerateTradeRecords(Slice(text.money), Slice(text.stocks), rng, reply, t, c)
  ELSE [trades |-> <<>>, cache |-> c]

\* _extract_content_patterns: the records, and the lookup's cache after
ExtractTradeRecords(text, rng, reply, t, c) ==
  IF Len(text.money) > PatternThreshold /\ Len(text.stocks) > PatternThreshold
  THEN GenerateTradeRecords(Slice(text.money), Slice(text.stocks), rng, reply, t, c)
  ELSE [trades |-> <<>>, cache |-> c]

\* CapitolTradesHTMLFetcher._extract_content_patterns(soup, page_text)
ExtractContentPatternsCall ==
  /\ IsNone(trades)
  /\ \E rng \in DrawLists, reply \in PatternReplies :
       LET out == ExtractTradeRecords(page_text, rng, reply, now, cache) IN
       /\ trades' = Some(out.trades)
       /\ cache' = out.cache
  /\ UNCHANGED <<dmVars, lookups, first, nameOp, nameRet, namePre, page_text,
                 filterVars, aliasVars, pc, stepVars>>

-----------------------------------------------------------------------------
(* The dashboard's filters, src/streamlit_app.py.  A dict is the function   *)
(* of its keys; the empty dict is the function of no key.                   *)

EmptyDict == <<>>

\* the order of two "YYYY-MM-DD" strings, character by character: the fields
\* are zero-padded, so it is the order of the triples
StrLeq(a, b) ==
  \/ a[1] < b[1]
  \/ a[1] = b[1] /\ a[2] < b[2]
  \/ a[1] = b[1] /\ a[2] = b[2] /\ a[3] <= b[3]

\* df[column].unique()
Unique(df, column) == { df[i][column] : i \in 1..Len(df) }

\* df['trade_date'].min(), df['trade_date'].max(): of strings
MinStr(strs) == CHOOSE a \in strs : \A b \in strs : StrLeq(a, b)
MaxStr(strs) == CHOOSE a \in strs : \A b \in strs : StrLeq(b, a)

\* the options of a selectbox: "All", then the values of the column
Options(df, column) == {"All"} \cup Unique(df, column)

\* the dates a date_input with min_value and max_value lets the user pick;
\* the two ends stand for the range
DateChoices(min_date, max_date) == {min_date, max_date}

\* create_filters, lines 71-111: what the sidebar may return for the frame df
SidebarFilters(df) ==
  LET min_date == ParseDate(MinStr(Unique(df, "trade_date")))
      max_date == ParseDate(MaxStr(Unique(df, "trade_date")))
  IN  [politician : Options(df, "politician_name"),
       party : Options(df, "party"),
       chamber : Options(df, "chamber"),
       transaction : Options(df, "transaction_type"),
       start_date : DateChoices(min_date, max_date),
       end_date : DateChoices(min_date, max_date),
       trade_sizes : SUBSET Unique(df, "trade_size")]

\* create_filters, lines 99-109: what the sidebar returns when untouched
DefaultFilters(df) ==
  [politician |-> "All", party |-> "All", chamber |-> "All",
   transaction |-> "All",
   start_date |-> ParseDate(MinStr(Unique(df, "trade_date"))),
   end_date |-> ParseDate(MaxStr(Unique(df, "trade_date"))),
   trade_sizes |-> Unique(df, "trade_size")]

\* filters.get(key, 'All')
GetOrAll(f, key) == IF key \in DOMAIN f THEN f[key] ELSE "All"

\* filtered_df[filtered_df[column] == value] when value is not "All"
WhereEquals(df, column, value) ==
  IF value # "All" THEN SelectSeq(df, LAMBDA r : r[column] = value) ELSE df

\* a faulty variant of the date filter: the end date is excluded
WhereBetweenExclusive(df, f) ==
  IF "start_date" \in DOMAIN f /\ "end_date" \in DOMAIN f
  THEN SelectSeq(df, LAMBDA r : /\ ParseDate(r.trade_date) >= f.start_date
                                /\ ParseDate(r.trade_date) < f.end_date)
  ELSE df

\* apply_filters, lines 133-137: the date filter
WhereBetween(df, f) ==
  IF "start_date" \in DOMAIN f /\ "end_date" \in DOMAIN f
  THEN SelectSeq(df, LAMBDA r : /\ ParseDate(r.trade_date) >= f.start_date
                                /\ ParseDate(r.trade_date) <= f.end_date)
  ELSE df

\* apply_filters, lines 140-141: the trade size filter, skipped when the
\* selection is missing or empty
WhereSizeIn(df, f) ==
  IF "trade_sizes" \in DOMAIN f /\ f.trade_sizes # {}
  THEN SelectSeq(df, LAMBDA r : r.trade_size \in f.trade_sizes)
  ELSE df

\* apply_filters(df, filters)
ApplyFilters(df, f) ==
  IF IsEmpty(df) \/ DOMAIN f = {} THEN df
  ELSE LET by_politician == WhereEquals(df, "politician_name", GetOrAll(f, "politician"))
           by_party == WhereEquals(by_politician, "party", GetOrAll(f, "party"))
           by_chamber == WhereEquals(by_party, "chamber", GetOrAll(f, "chamber"))
           by_transaction ==
             WhereEquals(by_chamber, "transaction_type", GetOrAll(f, "transaction"))
       IN  WhereSizeIn(WhereBetween(by_transaction, f), f)

\* the draws behind the frames the dashboard is given
FilterDraws ==
  { d \in Draws : /\ d.disclosure_days = 1 /\ d.reporting_delay = 1
                  /\ (d.trade_days = 1) = (d.transaction_type = "Buy") }

\* the times the frames were fetched at: the day the clock starts and ten
\* days later, when the trade dates lie on both sides of the new year
FetchTimes == {0, 10 * SecondsPerDay}

\* the frames the dashboard is given: the empty frame of a failed fetch, and
\* what the pattern stage makes of the smallest page above its threshold
Frames ==
  {EmptyFrame} \cup
  { ExtractTradeRecords([money |-> MoneyMatches(PatternThreshold + 1, DollarToken),
                         stocks |-> StockMatches(PatternThreshold + 1)],
                        <<d1, d2>>, [kind |-> "exc", results |-> <<>>], t, <<>>).trades :
      d1 \in FilterDraws, d2 \in FilterDraws, t \in FetchTimes }

\* create_filters(df)
CreateFilters ==
  /\ IsNone(filters)
  /\ IF IsEmpty(table)
     THEN filters' = Some(EmptyDict)
     ELSE \E f \in SidebarFilters(table) : filters' = Some(f)
  /\ UNCHANGED <<dmVars, nameVars, patVars, table, shown, aliasVars, pc, stepVars>>

\* a caller of apply_filters that has no filters to pass
PassNoFilters ==
  /\ IsNone(filters)
  /\ filters' = Some(EmptyDict)
  /\ UNCHANGED <<dmVars, nameVars, patVars, table, shown, aliasVars, pc, stepVars>>

\* apply_filters(df, filters)
ApplyFiltersCall ==
  /\ ~IsNone(filters) /\ IsNone(shown)
  /\ shown' = Some(ApplyFilters(table, Val(filters)))
  /\ UNCHANGED <<dmVars, nameVars, patVars, table, filters, aliasVars, pc, stepVars>>

-----------------------------------------------------------------------------
(* The caller of get_data and the object it is handed.  get_data returns    *)
(* the DataFrame object the cache holds, not a copy of it: held says        *)
(* whether the caller's object is the cache's, and holds its rows when it   *)
(* is an object of its own.                                                 *)

SharedObject == [shared |-> TRUE, data |-> EmptyFrame]
OwnObject(df) == [shared |-> FALSE, data |-> df]

\* get_data, lines 364, 368, 369 and 372: the object returned is
\* self.cached_data whenever there is one, a new empty DataFrame otherwise
ReturnedObject(cd) == IF ~IsNone(cd) THEN SharedObject ELSE OwnObject(EmptyFrame)

\* the caller's view of get_data(force_refresh)
CallerGetData(force) ==
  /\ GetDataCall(force)
  /\ held' = Some(ReturnedObject(cached_data'))
  /\ stored' = IF passes' = 1 /\ ~IsNone(fresh') /\ ~IsEmpty(Val(fresh').data)
               THEN cached_data' ELSE stored
  /\ UNCHANGED <<patVars, filterVars, pc, stepVars>>

\* in-place changes of a DataFrame: df.drop(df.index[-1], inplace=True) and
\* df.drop(df.index, inplace=True)
DropLastRow(df) == SubSeq(df, 1, Len(df) - 1)
DropAllRows(df) == EmptyFrame
Mutations(df) == IF IsEmpty(df) THEN {} ELSE {DropLastRow(df), DropAllRows(df)}

\* the caller changes, in place, the DataFrame it was handed
CallerMutates ==
  /\ ~IsNone(held)
  /\ IF Val(held).shared
     THEN /\ \E df \in Mutations(Val(cached_data)) : cached_data' = Some(df)
          /\ UNCHANGED held
     ELSE /\ \E df \in Mutations(Val(held).data) : held' = Some(OwnObject(df))
          /\ UNCHANGED cached_data
  /\ op' = [name |-> "mutate", force |-> FALSE]
  /\ pre' = Snapshot
  /\ calls' = <<>>
  /\ passes' = 0
  /\ fresh' = None
  /\ ret' = <<>>
  /\ UNCHANGED <<fetchers, last_fetch_time, now, nameVars, stored, patVars,
                 filterVars, pc, stepVars>>

-----------------------------------------------------------------------------
(* Dashboard sessions sharing the module-level data_manager: each session   *)
(* runs get_data in a thread of its own, and nothing in get_data excludes   *)
(* another thread.  A thread is idle (outside get_data) or fetching (inside *)
(* fetch_fresh_data, between the test of lines 358-361 and the assignments  *)
(* of lines 363-372).                                                       *)

\* the sessions
NumThreads == 2
Threads == 1..NumThreads

\* get_data, lines 358-361 and 375: a thread enters get_data, and returns at
\* once when no refresh is needed
ThreadEnters(t, force) ==
  /\ pc[t] = "idle"
  /\ op' = [name |-> "get_data", force |-> force]
  /\ pre' = Snapshot
  /\ calls' = <<>>
  /\ passes' = 0
  /\ fresh' = None
  /\ IF NeedsRefresh(force, last_fetch_time, cached_data, now)
     THEN /\ pc' = [pc EXCEPT ![t] = "fetching"]
          /\ ret' = <<>>
     ELSE /\ ret' = ServeCache(cached_data, last_fetch_time)
          /\ UNCHANGED pc
  /\ UNCHANGED <<fetchers, cached_data, last_fetch_time, now, nameVars, patVars,
                 filterVars, aliasVars, stepVars>>

\* get_data, lines 361-372: the thread's fetch_fresh_data returns, the cache
\* is updated and get_data returns
ThreadReturns(t) ==
  /\ pc[t] = "fetching"
  /\ pc' = [pc EXCEPT ![t] = "idle"]
  /\ op' = [name |-> "get_data", force |-> FALSE]
  /\ pre' = Snapshot
  /\ \E r \in Passes(fetchers) : Refresh(r)
  /\ UNCHANGED <<fetchers, now, nameVars, patVars, filterVars, aliasVars, stepVars>>

-----------------------------------------------------------------------------
(* get_data one network call at a time: the pass of fetch_fresh_data waits  *)
(* for the reply or the timeout of one is_available() or fetch_data(), then *)
(* goes on.  The clock advances between calls of get_data only.             *)

\* what one fetch_data() of the source of kind k at place i can do: raise,
\* or return data; seen is what the HTML source was served
FetchOutcomes(k, i) ==
  CASE k = "html" ->
         { [raised |-> FALSE, data |-> HtmlFetchData(g, p),
            seen |-> Some([http |-> g, page |-> p])] : g \in Http, p \in Pages }
    [] k = "api" ->
         { [raised |-> FALSE, data |-> ApiFetchData(g), seen |-> None] : g \in Http }
    [] OTHER ->
         { [raised |-> x.raised, data |-> x.data, seen |-> None] :
             x \in { y \in StubAnswers(i) : y.avail = "true" } }

\* what one is_available() of the source of kind k at place i can do
ProbeOutcomes(k, i) == { x.avail : x \in Answers(k, i) }

\* a faulty variant: a source that gave nothing is tried again
NextSourceRetries(i) == i

\* fetch_fresh_data, line 325: "for fetcher in self.fetchers"
NextSource(i) == i + 1

\* the pass is at source i, waiting for the call of the method
Waiting(i, method) == Some([i |-> i, method |-> method])

\* get_data, lines 361-372: fetch_fresh_data returned r
PassEnds(r) == at' = None /\ Refresh(r)

\* fetch_fresh_data, the loop after source i, log being the calls made so far
PassGoesOn(i, log) ==
  IF NextSource(i) <= Len(fetchers)
  THEN /\ at' = Waiting(NextSource(i), "is_available")
       /\ calls' = log
       /\ UNCHANGED <<passes, fresh, ret, cached_data, last_fetch_time>>
  ELSE PassEnds(Exhausted(log))

\* fetch_fresh_data, an exception that the try block does not catch
Escapes(log) == [raised |-> TRUE, data |-> EmptyFrame,
                 label |-> NoSourceLabel, calls |-> log]

\* get_data, lines 353-361 and 375: the call begins, and returns at once
\* when no refresh is needed
StepBegin(force) ==
  /\ IsNone(at)
  /\ op' = [name |-> "get_data", force |-> force]
  /\ pre' = Snapshot
  /\ served' = None
  /\ calls' = <<>>
  /\ fresh' = None
  /\ IF NeedsRefresh(force, last_fetch_time, cached_data, now)
     THEN /\ at' = Waiting(1, "is_available")
          /\ passes' = 1
          /\ ret' = <<>>
     ELSE /\ at' = None
          /\ passes' = 0
          /\ ret' = ServeCache(cached_data, last_fetch_time)
  /\ UNCHANGED <<fetchers, cached_data, last_fetch_time, now, nameVars, patVars,
                 filterVars, aliasVars, pc>>

\* fetch_fresh_data, lines 329-331: is_available() of the source returns or
\* raises
StepProbe ==
  /\ ~IsNone(at) /\ Val(at).method = "is_available"
  /\ LET i == Val(at).i IN
     \E a \in ProbeOutcomes(fetchers[i], i) :
       LET log == Append(calls, AvailCall(i, a)) IN
       IF a = "raise"
       THEN IF Catches("is_available") THEN PassGoesOn(i, log)
            ELSE PassEnds(Escapes(log))
       ELSE IF SkipsSource(a) THEN PassGoesOn(i, log)
       ELSE /\ at' = Waiting(i, "fetch_data")
            /\ calls' = log
            /\ UNCHANGED <<passes, fresh, ret, cached_data, last_fetch_time>>
  /\ UNCHANGED <<fetchers, now, op, pre, served, nameVars, patVars, filterVars,
                 aliasVars, pc>>

\* fetch_fresh_data, lines 333-343: fetch_data() of the source returns or
\* raises
StepFetch ==
  /\ ~IsNone(at) /\ Val(at).method = "fetch_data"
  /\ LET i == Val(at).i IN
     \E x \in FetchOutcomes(fetchers[i], i) :
       LET log == Append(calls, FetchCall(i, x)) IN
       /\ served' = IF IsNone(x.seen) THEN served ELSE x.seen
       /\ IF x.raised
          THEN IF Catches("fetch_data") THEN PassGoesOn(i, log)
               ELSE PassEnds(Escapes(log))
          ELSE IF ShortCircuits(x.data)
          THEN PassEnds([raised |-> FALSE, data |-> x.data,
                         label |-> SourceLabel(SourceName(fetchers[i], i)),
                         calls |-> log])
          ELSE PassGoesOn(i, log)
  /\ UNCHANGED <<fetchers, now, op, pre, nameVars, patVars, filterVars,
                 aliasVars, pc>>

\* the clock advances between two calls of get_data
StepTick == IsNone(at) /\ Tick

-----------------------------------------------------------------------------
(* The specifications *)

\* DataManager.__init__ with the source list fs
DmInit(fs) ==
  /\ fetchers = fs
  /\ cached_data = None
  /\ last_fetch_time = None
  /\ now = 0
  /\ op = [name |-> "init", force |-> FALSE]
  /\ calls = <<>>
  /\ passes = 0
  /\ fresh = None
  /\ ret = <<>>
  /\ pre = [cached_data |-> None, last_fetch_time |-> None, now |-> 0]

\* nothing was extracted, filtered or handed out, and no thread is in get_data
PatIdle == page_text = [money |-> <<>>, stocks |-> <<>>] /\ trades = None
FilterIdle == table = <<>> /\ filters = None /\ shown = None
AliasIdle == held = None /\ stored = None
ThreadIdle == pc = <<>>
StepIdle == at = None /\ served = None

\* DataManager.__init__, with any source list in place of the shipped one
Init ==
  /\ \E fs \in FetcherLists : DmInit(fs)
  /\ NameInit
  /\ PatIdle /\ FilterIdle /\ AliasIdle /\ ThreadIdle /\ StepIdle

Next ==
  \/ GetData(TRUE)
  \/ GetData(FALSE)
  \/ FetchFresh
  \/ GetCacheStatus
  \/ Tick

Spec == Init /\ [][Next]_vars

\* the name resolver alone, on a DataManager with the shipped source list
NamesInit == Init /\ fetchers = DefaultFetchers

NamesNext == GetCompanyName

SpecNames == NamesInit /\ [][NamesNext]_vars

\* the pattern stage alone, on any page text
PatternsInit ==
  /\ DmInit(DefaultFetchers)
  /\ NameInit
  /\ page_text \in PageTexts /\ trades = None
  /\ FilterIdle /\ AliasIdle /\ ThreadIdle /\ StepIdle

PatternsNext == ExtractContentPatternsCall

SpecPatterns == PatternsInit /\ [][PatternsNext]_vars

\* the filters alone, on any frame the dashboard may be given
FiltersInit ==
  /\ DmInit(DefaultFetchers)
  /\ NameInit
  /\ table \in Frames /\ filters = None /\ shown = None
  /\ PatIdle /\ AliasIdle /\ ThreadIdle /\ StepIdle

FiltersNext == CreateFilters \/ PassNoFilters \/ ApplyFiltersCall

SpecFilters == FiltersInit /\ [][FiltersNext]_vars

\* one caller of get_data that may change what it is handed
AliasInit ==
  /\ DmInit(DefaultFetchers)
  /\ NameInit
  /\ AliasIdle
  /\ PatIdle /\ FilterIdle /\ ThreadIdle /\ StepIdle

AliasNext ==
  \/ CallerGetData(TRUE)
  \/ CallerGetData(FALSE)
  \/ CallerMutates
  \/ Tick

SpecAlias == AliasInit /\ [][AliasNext]_vars

\* the sessions' threads in get_data, on the shipped source list
ThreadsInit ==
  /\ DmInit(DefaultFetchers)
  /\ NameInit
  /\ pc = [t \in Threads |-> "idle"]
  /\ PatIdle /\ FilterIdle /\ AliasIdle /\ StepIdle

ThreadsNext ==
  \/ \E t \in Threads : ThreadEnters(t, TRUE)
  \/ \E t \in Threads : ThreadEnters(t, FALSE)
  \/ \E t \in Threads : ThreadReturns(t)
  \/ Tick

SpecThreads == ThreadsInit /\ [][ThreadsNext]_vars

\* get_data one network call at a time
StepsInit ==
  /\ \E fs \in FetcherLists : DmInit(fs)
  /\ NameInit
  /\ StepIdle
  /\ PatIdle /\ FilterIdle /\ AliasIdle /\ ThreadIdle

StepsNext ==
  \/ StepBegin(TRUE)
  \/ StepBegin(FALSE)
  \/ StepProbe
  \/ StepFetch
  \/ StepTick

SpecSteps == StepsInit /\ [][StepsNext]_vars

\* every network call carries a timeout (lines 48, 128, 140, 282, 293): the
\* call the pass is waiting for returns or raises
SpecStepsFair == SpecSteps /\ WF_vars(StepProbe) /\ WF_vars(StepFetch)

-----------------------------------------------------------------------------
(* Properties of the coordinator and of the cache, checked under Spec *)

\* the last call ran the coordinator: fetch_fresh_data itself, or a get_data
\* that refreshed
RanPass == op.name \in {"fetch_fresh_data", "get_data"} /\ passes = 1

\* call c is source i's is_available() returning True
ProbeOk(c, i) ==
  c.src = i /\ c.method = "is_available" /\ ~c.raised /\ c.avail

\* call c is an is_available() that returned False or raised
ProbeFailed(c) == c.method = "is_available" /\ (c.raised \/ ~c.avail)

\* call c is source i's fetch_data() returning a non-empty DataFrame
FetchedData(c, i) ==
  c.src = i /\ c.method = "fetch_data" /\ ~c.raised /\ ~IsEmpty(c.data)

\* the coordinator returned an empty result to the last call
FetchFailed == ~IsNone(fresh) /\ IsEmpty(Val(fresh).data)

\* the coordinator returned a non-empty result to the last call
FetchSucceeded == ~IsNone(fresh) /\ ~IsEmpty(Val(fresh).data)

\* a cache entry existed before the last call
HadEntry == ~IsNone(pre.cached_data) /\ ~IsNone(pre.last_fetch_time)

\* the age of that entry when the last call was made
PreAge == pre.now - Val(pre.last_fetch_time)

\* the first source was available and returned a non-empty result
FirstSourceDelivers ==
  /\ op.name = "fetch_fresh_data"
  /\ Len(calls) >= 2
  /\ ProbeOk(calls[1], 1)
  /\ FetchedData(calls[2], 1)

\* C1: when the first source of the list is available and returns a
\* non-empty result, fetch_fresh_data returns exactly that result with that
\* source's name as label, and calls neither is_available nor fetch_data on
\* any later source.
C1_FirstSourceWins ==
  FirstSourceDelivers =>
    /\ ret = Returned(calls[2].data, SourceLabel(SourceName(fetchers[1], 1)))
    /\ \A k \in 1..Len(calls) : calls[k].src = 1
    /\ Len(calls) = 2

\* C1's case: a list of two sources whose first one delivers
C1_Witness == FirstSourceDelivers /\ Len(fetchers) = 2 /\ Len(calls) = 2

\* C2: in a pass of the coordinator, a source whose is_available returned
\* False or raised is not asked for data in that pass, and the coordinator
\* goes on to the next source of the list (or ends the pass after the last).
C2_FailedProbeSkipsFetch ==
  RanPass =>
    \A k \in 1..Len(calls) :
      ProbeFailed(calls[k]) =>
        /\ \A j \in 1..Len(calls) :
             ~(calls[j].src = calls[k].src /\ calls[j].method = "fetch_data")
        /\ IF calls[k].src < Len(fetchers)
           THEN /\ k < Len(calls)
                /\ calls[k + 1].src = calls[k].src + 1
                /\ calls[k + 1].method = "is_available"
           ELSE k = Len(calls)

\* C2's case: the first source's probe raised, the second one's returned
\* False, and the pass asked both
C2_Witness ==
  /\ RanPass
  /\ Len(calls) = 2
  /\ calls[1].src = 1 /\ calls[1].method = "is_available" /\ calls[1].raised
  /\ calls[2].src = 2 /\ ProbeFailed(calls[2]) /\ ~calls[2].raised

\* every configured source was probed and none was available
AllUnavailable ==
  /\ op.name = "fetch_fresh_data"
  /\ Len(calls) = Len(fetchers)
  /\ \A i \in 1..Len(calls) : calls[i].src = i /\ ProbeFailed(calls[i])

\* C3: when every configured source is unavailable, fetch_fresh_data returns
\* (it does not raise) an empty DataFrame labeled "No source available".
C3_AllUnavailable ==
  AllUnavailable =>
    /\ ~ret.raised
    /\ IsEmpty(ret.data)
    /\ ret.label = [text |-> "No source available", at |-> None]

\* C3's case: two sources, both unavailable
C3_Witness == AllUnavailable /\ Len(fetchers) = 2

\* a forced get_data whose fetch failed while an entry existed
ForcedRefreshFailed ==
  /\ op.name = "get_data" /\ op.force
  /\ HadEntry
  /\ FetchFailed

\* C4: a forced get_data whose fetch fails while a prior entry exists
\* returns the prior entry's records and a label that says cached data and
\* carries the time the prior entry was fetched.
C4_StaleOnFailedRefresh ==
  ForcedRefreshFailed =>
    /\ ~ret.raised
    /\ ret.data = Val(pre.cached_data)
    /\ ret.label = CachedLabel(pre.last_fetch_time)

\* C4's case: the refresh fails some time after the entry was fetched
C4_Witness == ForcedRefreshFailed /\ PreAge > 0 /\ ~IsEmpty(ret.data)

\* C5: right after a successful fetch get_cache_status reports
\* cache_valid; once more than the TTL has elapsed since the last successful
\* fetch it reports cache_valid false, and a get_data(False) made then runs
\* the coordinator.
C5_Freshness ==
  /\ (op.name = "get_data" /\ FetchSucceeded) =>
       CacheStatus(last_fetch_time, cached_data, now).cache_valid
  /\ (~IsNone(last_fetch_time) /\ now - Val(last_fetch_time) > CacheDuration) =>
       ~CacheStatus(last_fetch_time, cached_data, now).cache_valid
  /\ (op.name = "get_cache_status" /\ ~IsNone(last_fetch_time)) =>
       ret.cache_valid = (now - Val(last_fetch_time) < CacheDuration)
  /\ (op.name = "get_data" /\ ~op.force /\ HadEntry /\ PreAge > CacheDuration) =>
       passes = 1 /\ ~IsNone(fresh)

\* C5's case: a get_data(False) on an entry older than the TTL, which
\* fetches again and leaves a valid cache
C5_Witness ==
  /\ op.name = "get_data" /\ ~op.force
  /\ HadEntry /\ PreAge > CacheDuration
  /\ FetchSucceeded
  /\ CacheStatus(last_fetch_time, cached_data, now).cache_valid

\* C6: get_data(True) runs the coordinator exactly once, whatever the state
\* of the cache.
C6_ForceAlwaysFetches ==
  (op.name = "get_data" /\ op.force) => passes = 1 /\ Len(calls) > 0

\* C6's case: a forced get_data on an entry still within its TTL
C6_Witness ==
  /\ op.name = "get_data" /\ op.force
  /\ HadEntry /\ PreAge < CacheDuration
  /\ passes = 1

\* a get_data(False) on an entry no older than the TTL
FreshRead ==
  /\ op.name = "get_data" /\ ~op.force
  /\ HadEntry
  /\ PreAge <= CacheDuration

\* C7: while an entry exists and is within its TTL, get_data(False) returns
\* the cached records with the cached-data label carrying the entry's
\* timestamp, calls no source, and leaves the entry unchanged.
C7_FreshReadIsPure ==
  FreshRead =>
    /\ ret = Returned(Val(pre.cached_data), CachedLabel(pre.last_fetch_time))
    /\ calls = <<>>
    /\ passes = 0
    /\ cached_data = pre.cached_data
    /\ last_fetch_time = pre.last_fetch_time

\* C7's case: the entry is exactly as old as the TTL
C7_Witness == FreshRead /\ PreAge = CacheDuration

\* C8: get_data and fetch_fresh_data return a (DataFrame, label) pair and
\* raise nothing, whatever the sources do and whatever the cache holds.
C8_NeverRaises ==
  op.name \in {"get_data", "fetch_fresh_data"} =>
    /\ ~ret.raised
    /\ ret \in [raised : {FALSE}, data : Seq([src : STRING, id : Nat]),
                label : [text : STRING, at : {None} \cup {Some(t) : t \in 0..MaxNow}]]

\* C8's case: both sources raised, one from is_available and one from
\* fetch_data, while the cache held an entry
C8_Witness ==
  /\ op.name = "get_data"
  /\ HadEntry
  /\ \E k \in 1..Len(calls) : calls[k].method = "is_available" /\ calls[k].raised
  /\ \E k \in 1..Len(calls) : calls[k].method = "fetch_data" /\ calls[k].raised
  /\ ~ret.raised

-----------------------------------------------------------------------------
(* Further properties of the cache and of the coordinator, under Spec *)

\* the fields of the status of a cache that holds an entry
StatusFields == {"last_updated", "cache_age_minutes", "cache_valid",
                 "cache_remaining_minutes", "total_records"}

\* the last call left the cache entry and the clock as they were
EntryUntouched ==
  /\ cached_data = pre.cached_data
  /\ last_fetch_time = pre.last_fetch_time
  /\ now = pre.now

\* C13: get_cache_status has no side effect: it leaves cached_data and
\* last_fetch_time as they were, calls no source, and its result is
\* determined by the cache entry and the clock.
C13_StatusIsPure ==
  op.name = "get_cache_status" =>
    /\ EntryUntouched
    /\ calls = <<>> /\ passes = 0
    /\ ret = IF IsNone(pre.last_fetch_time) THEN NoStatus
             ELSE CacheStatus(pre.last_fetch_time, pre.cached_data, pre.now)

\* C13's case: the status of an entry older than the TTL
C13_Witness ==
  op.name = "get_cache_status" /\ HadEntry /\ PreAge > CacheDuration

\* C14 as stated: in every cache state the status has the six fields
\* has_data, last_updated, cache_age_minutes, cache_valid,
\* cache_remaining_minutes and total_records, has_data telling whether a
\* fetch has occurred and total_records the number of cached records.
C14_SixFields ==
  op.name = "get_cache_status" =>
    /\ DOMAIN ret = StatusFields \cup {"has_data"}
    /\ ret.has_data = ~IsNone(pre.last_fetch_time)
    /\ ret.total_records =
         (IF IsNone(pre.cached_data) THEN 0 ELSE Len(Val(pre.cached_data)))

\* C14, amended: once a fetch has succeeded the status has the five fields
\* last_updated, cache_age_minutes, cache_valid, cache_remaining_minutes and
\* total_records (no has_data), total_records being the number of cached
\* records; before that it is the single field status, "No data fetched yet".
C14_StatusShape ==
  op.name = "get_cache_status" =>
    IF IsNone(pre.last_fetch_time)
    THEN ret = [status |-> "No data fetched yet"]
    ELSE /\ DOMAIN ret = StatusFields
         /\ ret.last_updated = Val(pre.last_fetch_time)
         /\ ret.cache_age_minutes = PreAge \div 60
         /\ ret.cache_valid = (PreAge < CacheDuration)
         /\ ret.cache_remaining_minutes =
              (IF PreAge < CacheDuration THEN (CacheDuration - PreAge) \div 60 ELSE 0)
         /\ ret.total_records = Len(Val(pre.cached_data))

\* C14's case: the status of an entry of two records, one second before it
\* expires (29 minutes old, 0 whole minutes left, still valid)
C14_Witness ==
  /\ op.name = "get_cache_status" /\ HadEntry
  /\ PreAge = CacheDuration - 1
  /\ ret.total_records = 2 /\ ret.cache_age_minutes = 29
  /\ ret.cache_remaining_minutes = 0 /\ ret.cache_valid

\* no fetch has succeeded before the last call
WasNoData == IsNone(pre.cached_data) /\ IsNone(pre.last_fetch_time)

\* C18: with no prior successful fetch every get_data, forced or not, runs
\* the coordinator; if that fetch fails get_data returns an empty DataFrame
\* labeled "No source available" and there is still no entry.
C18_NoDataAlwaysFetches ==
  (op.name = "get_data" /\ WasNoData) =>
    /\ passes = 1 /\ ~IsNone(fresh)
    /\ FetchFailed =>
         /\ ret = Returned(EmptyFrame, [text |-> "No source available", at |-> None])
         /\ IsNone(cached_data) /\ IsNone(last_fetch_time)

\* C18's case: an unforced get_data with no entry, two sources, both failing
C18_Witness ==
  /\ op.name = "get_data" /\ ~op.force /\ WasNoData
  /\ Len(fetchers) = 2 /\ FetchFailed

\* the last call was a get_data whose refresh failed
RefreshFailed == op.name = "get_data" /\ FetchFailed

\* C19 as stated: a failed refresh leaves cached_data and last_fetch_time
\* unchanged, and the cache is then one that the next get_data(False)
\* refreshes again.
C19_FailedRefreshStaysStale ==
  RefreshFailed =>
    /\ EntryUntouched
    /\ NeedsRefresh(FALSE, last_fetch_time, cached_data, now)

\* C19, amended: a failed refresh leaves cached_data and last_fetch_time
\* unchanged; when the refresh was due (no entry, or an entry older than the
\* TTL) it is still due, so the next get_data(False) fetches again; a failed
\* forced refresh of an entry within its TTL leaves that entry served from
\* the cache.
C19_FailedRefreshKeepsEntry ==
  RefreshFailed =>
    /\ EntryUntouched
    /\ NeedsRefresh(FALSE, last_fetch_time, cached_data, now)
         = NeedsRefresh(FALSE, pre.last_fetch_time, pre.cached_data, pre.now)
    /\ (WasNoData \/ (HadEntry /\ PreAge > CacheDuration)) =>
         NeedsRefresh(FALSE, last_fetch_time, cached_data, now)
    /\ (HadEntry /\ PreAge <= CacheDuration) =>
         ~NeedsRefresh(FALSE, last_fetch_time, cached_data, now)

\* C19's case: an unforced refresh of an entry older than the TTL fails
C19_Witness ==
  RefreshFailed /\ ~op.force /\ HadEntry /\ PreAge > CacheDuration

\* the positions of the log where method was called on source i
CallsOf(i, method) ==
  { k \in 1..Len(calls) : calls[k].src = i /\ calls[k].method = method }

\* C20: in one pass the sources are tried in list order, is_available and
\* fetch_data are each called at most once per source, fetch_data only right
\* after the source's own is_available returned True; an available source
\* that returns an empty result does not end the pass; and the label
\* returned with non-empty data is the name of the source that produced it.
C20_PassInListOrder ==
  RanPass =>
    /\ Len(calls) > 0 /\ calls[1].src = 1 /\ calls[1].method = "is_available"
    /\ \A k \in 1..Len(calls) : calls[k].src \in 1..Len(fetchers)
    /\ \A k \in 1..(Len(calls) - 1) :
         \/ calls[k + 1].src = calls[k].src + 1 /\ calls[k + 1].method = "is_available"
         \/ calls[k + 1].src = calls[k].src /\ calls[k + 1].method = "fetch_data"
    /\ \A i \in 1..Len(fetchers) :
         /\ Cardinality(CallsOf(i, "is_available")) <= 1
         /\ Cardinality(CallsOf(i, "fetch_data")) <= 1
    /\ \A k \in 1..Len(calls) :
         calls[k].method = "fetch_data" => k > 1 /\ ProbeOk(calls[k - 1], calls[k].src)
    /\ \A k \in 1..Len(calls) :
         (calls[k].method = "fetch_data" /\ ~calls[k].raised /\ IsEmpty(calls[k].data)
            /\ calls[k].src < Len(fetchers)) =>
           k < Len(calls) /\ calls[k + 1].src = calls[k].src + 1
    /\ FetchSucceeded =>
         LET last == calls[Len(calls)] IN
         /\ FetchedData(last, last.src)
         /\ Val(fresh).data = last.data
         /\ Val(fresh).label = SourceLabel(SourceName(fetchers[last.src], last.src))
    /\ FetchFailed => Cardinality(CallsOf(Len(fetchers), "is_available")) = 1

\* C20's case: the first source is available and empty, the second delivers
C20_Witness ==
  /\ RanPass /\ Len(calls) = 4
  /\ ProbeOk(calls[1], 1)
  /\ calls[2].method = "fetch_data" /\ ~calls[2].raised /\ IsEmpty(calls[2].data)
  /\ ProbeOk(calls[3], 2) /\ FetchedData(calls[4], 2)
  /\ FetchSucceeded

-----------------------------------------------------------------------------
(* Invariants of the cache entry, checked under Spec *)

\* C23: after any sequence of calls last_fetch_time is None exactly when
\* cached_data is None, cached_data is never an empty DataFrame, and
\* last_fetch_time never decreases (nor goes back to None).
C23_EntryWellFormed ==
  /\ IsNone(last_fetch_time) = IsNone(cached_data)
  /\ ~IsNone(cached_data) => ~IsEmpty(Val(cached_data))
  /\ ~IsNone(pre.last_fetch_time) =>
       /\ ~IsNone(last_fetch_time)
       /\ Val(last_fetch_time) >= Val(pre.last_fetch_time)

\* C23's case: an entry is replaced by a later successful refresh
C23_Witness ==
  /\ op.name = "get_data" /\ HadEntry /\ FetchSucceeded
  /\ Val(last_fetch_time) > Val(pre.last_fetch_time)
  /\ cached_data # pre.cached_data

\* C24: at every clock value the cache_valid of get_cache_status is true
\* exactly when get_data(False) would serve the entry without a fetch.
C24_ValidIffServed ==
  (op.name = "get_cache_status" /\ HadEntry) =>
    ret.cache_valid = ~NeedsRefresh(FALSE, last_fetch_time, cached_data, now)

\* C25: once a fetch has succeeded every get_data returns a non-empty
\* DataFrame, whatever the sources do; an empty one is returned only while
\* no fetch has succeeded yet.
C25_NonEmptyAfterSuccess ==
  op.name = "get_data" =>
    /\ ~ret.raised
    /\ HadEntry => ~IsEmpty(ret.data)
    /\ IsEmpty(ret.data) => WasNoData /\ IsNone(cached_data)

\* C25's case: a forced refresh of an entry finds every source failing
C25_Witness ==
  /\ op.name = "get_data" /\ op.force /\ HadEntry /\ FetchFailed
  /\ ~IsEmpty(ret.data)

-----------------------------------------------------------------------------
(* Properties of get_data call by call, checked under SpecSteps and, for    *)
(* termination, under SpecStepsFair                                         *)

\* a call of get_data is waiting for a source
InCall == ~IsNone(at)

\* the pass has gone past call k of the log, to the next source
MovedOn(k) ==
  \/ k < Len(calls) /\ calls[k + 1].src = calls[k].src + 1
  \/ k = Len(calls) /\ InCall /\ Val(at).i = calls[k].src + 1
  \/ k = Len(calls) /\ ~InCall /\ calls[k].src = Len(fetchers) /\ FetchFailed

\* C21: the HTML source runs its pattern stage only when no embedded-data
\* candidate was accepted: a page with an accepted candidate yields no row,
\* however many tokens its text holds, and the pass moves on to the next
\* source; the rows the source returns are those of the pattern stage of a
\* page without a candidate.
C21_EmbeddedShadowsPatterns ==
  \A k \in 1..Len(calls) :
    (calls[k].method = "fetch_data" /\ fetchers[calls[k].src] = "html") =>
      /\ ~IsNone(served)
      /\ (Val(served).http = "200" /\ Val(served).page.embedded) =>
           IsEmpty(calls[k].data) /\ MovedOn(k)
      /\ ~IsEmpty(calls[k].data) =>
           /\ Val(served).http = "200" /\ ~Val(served).page.embedded
           /\ calls[k].data = ExtractContentPatterns(Val(served).page)

\* C21's case: a page with an accepted candidate and eleven tokens of each
\* kind; the HTML source returns nothing, the API source is tried and the
\* fetch fails
C21_Witness ==
  /\ ~InCall /\ op.name = "get_data" /\ Len(calls) = 4
  /\ ~IsNone(served) /\ Val(served).http = "200" /\ Val(served).page.embedded
  /\ Val(served).page.money = 11 /\ Val(served).page.stocks = 11
  /\ calls[2].method = "fetch_data" /\ IsEmpty(calls[2].data)
  /\ calls[3].src = 2 /\ FetchFailed

\* a call makes at most one pass, and the pass calls each method of each
\* source at most once
OnePassNoRetry ==
  /\ passes <= 1
  /\ Len(calls) <= 2 * Len(fetchers)
  /\ \A i \in 1..Len(fetchers) :
       /\ Cardinality(CallsOf(i, "is_available")) <= 1
       /\ Cardinality(CallsOf(i, "fetch_data")) <= 1

\* C22: every get_data call returns: it makes at most one pass over the
\* source list, without retrying a source, and, every network call
\* responding or timing out, the call that is waiting for a source
\* eventually is not.
C22_OnePassThenReturns == []OnePassNoRetry /\ (InCall ~> ~InCall)

\* C22's case: every endpoint of the shipped list fails its probe, and
\* get_data has returned
C22_Witness ==
  /\ ~InCall /\ op.name = "get_data" /\ passes = 1
  /\ fetchers = DefaultFetchers /\ Len(calls) = 2
  /\ ProbeFailed(calls[1]) /\ ProbeFailed(calls[2])
  /\ ~ret.raised /\ IsEmpty(ret.data)

-----------------------------------------------------------------------------
(* Properties of the pattern stage, checked under SpecPatterns *)

\* the pattern stage ran on the page text
Extracted == ~IsNone(trades)
NumMoney == Len(page_text.money)
NumTickers == Len(page_text.stocks)

\* every record made has a delay within 1..30 and is a Buy or a Sell
DelaysAndTypesInRange ==
  \A i \in 1..Len(Val(trades)) :
    /\ Val(trades)[i].reporting_delay \in 1..30
    /\ Val(trades)[i].transaction_type \in {"Buy", "Sell"}

\* C11 as stated: a page text with at least 5 money tokens and at least 5
\* ticker tokens yields min(10, #money, #tickers) records, between 1 and 10,
\* each with reporting_delay in 1..30 and transaction_type Buy or Sell; one
\* with fewer than 5 of either yields none.
C11_AtLeastFive ==
  Extracted =>
    /\ (NumMoney >= 5 /\ NumTickers >= 5) =>
         /\ Len(Val(trades)) \in 1..10
         /\ Len(Val(trades)) = Min(10, Min(NumMoney, NumTickers))
         /\ DelaysAndTypesInRange
    /\ (NumMoney < 5 \/ NumTickers < 5) => Len(Val(trades)) = 0

\* C11, amended: a page text with more than 5 money tokens and more than 5
\* ticker tokens yields min(10, #money, #tickers) records, between 6 and 10,
\* each with reporting_delay in 1..30 and transaction_type Buy or Sell; one
\* with 5 or fewer of either yields none.
C11_MoreThanFive ==
  Extracted =>
    /\ (NumMoney > 5 /\ NumTickers > 5) =>
         /\ Len(Val(trades)) \in 6..10
         /\ Len(Val(trades)) = Min(10, Min(NumMoney, NumTickers))
         /\ DelaysAndTypesInRange
    /\ (NumMoney <= 5 \/ NumTickers <= 5) => Len(Val(trades)) = 0

\* C11's case: six money tokens against eleven tickers make six records, the
\* delays drawn at both ends of their range
C11_Witness ==
  /\ Extracted /\ NumMoney = 6 /\ NumTickers = 11
  /\ Len(Val(trades)) = 6
  /\ Val(trades)[1].reporting_delay = 1 /\ Val(trades)[2].reporting_delay = 30

\* C12: every record of the pattern stage has disclosure_date >= trade_date
\* and reporting_delay = disclosure_date - trade_date in days, not negative.
C12_DelayIsDateDifference ==
  Extracted =>
    \A i \in 1..Len(Val(trades)) :
      LET r == Val(trades)[i] IN
      /\ ParseDate(r.disclosure_date) >= ParseDate(r.trade_date)
      /\ r.reporting_delay = ParseDate(r.disclosure_date) - ParseDate(r.trade_date)
      /\ r.reporting_delay >= 0

-----------------------------------------------------------------------------
(* Properties of the filters, checked under SpecFilters *)

\* the days of the earliest and of the latest trade of the frame
FirstTradeDay ==
  CHOOSE a \in { ParseDate(table[i].trade_date) : i \in 1..Len(table) } :
    \A i \in 1..Len(table) : a <= ParseDate(table[i].trade_date)
LastTradeDay ==
  CHOOSE a \in { ParseDate(table[i].trade_date) : i \in 1..Len(table) } :
    \A i \in 1..Len(table) : a >= ParseDate(table[i].trade_date)

\* the filters match every row: there are none, or every selector is "All",
\* the dates span the trades and every trade size is selected
MatchAll ==
  LET f == Val(filters) IN
  \/ DOMAIN f = {}
  \/ /\ f.politician = "All" /\ f.party = "All"
     /\ f.chamber = "All" /\ f.transaction = "All"
     /\ f.start_date = FirstTradeDay /\ f.end_date = LastTradeDay
     /\ f.trade_sizes = { table[i].trade_size : i \in 1..Len(table) }

\* C17: apply_filters with a match-all filter set (or the empty dict)
\* returns the frame it was given, row for row and field for field, in order.
C17_MatchAllIsIdentity ==
  (~IsNone(shown) /\ MatchAll) => Val(shown) = table

\* C17's case: the untouched sidebar's filters applied to six trades whose
\* dates lie on both sides of the new year
C17_Witness ==
  /\ ~IsNone(shown) /\ MatchAll /\ DOMAIN Val(filters) # {}
  /\ Val(filters) = DefaultFilters(table)
  /\ Len(table) = 6 /\ Val(shown) = table
  /\ FormatDate(FirstTradeDay)[1] < FormatDate(LastTradeDay)[1]
  /\ Cardinality({ table[i].politician_name : i \in 1..Len(table) }) = 2

-----------------------------------------------------------------------------
(* Properties of the object handed out, checked under SpecAlias *)

\* C15: what get_data returns is a snapshot: whatever the caller does to a
\* frame it was handed, the cache holds the frame the last successful fetch
\* stored, and a get_data served from the cache returns that frame.
C15_ReturnsSnapshot ==
  /\ cached_data = stored
  /\ (op.name = "get_data" /\ passes = 0 /\ ~IsNone(stored)) =>
       ret.data = Val(stored)

-----------------------------------------------------------------------------
(* Properties of concurrent sessions, checked under SpecThreads *)

\* the threads inside fetch_fresh_data
InFlight == { t \in DOMAIN pc : pc[t] = "fetching" }

\* C16: whatever the number of sessions calling get_data at once, at most
\* one refresh is in flight at any time.
C16_OneRefreshInFlight == Cardinality(InFlight) <= 1

-----------------------------------------------------------------------------
(* Properties of the name resolver, checked under SpecNames *)

\* the normalized ticker of the last get_company_name call (of a string)
LastKey == Normalize(Val(nameOp.ticker))

\* no normalized ticker was looked up over the network more than once
AtMostOneLookup == \A k \in DOMAIN lookups : lookups[k] <= 1

\* the last call left every entry of the cache as it was
EntriesKept ==
  \A k \in DOMAIN namePre : k \in DOMAIN cache /\ cache[k] = namePre[k]

\* C9: for any ticker, tickers being identified after trimming and
\* upper-casing, at most one network lookup is ever issued, every call
\* returns the name the first call for that ticker returned, and an entry of
\* the cache is never changed or removed.
C9_OneLookupStableName ==
  /\ AtMostOneLookup
  /\ ~IsNone(nameOp.ticker) => nameRet = first[LastKey]
  /\ EntriesKept

\* the part of C9 that the code keeps: it holds of every ticker that is not
\* empty after trimming
C9_ExceptEmptyTicker ==
  /\ AtMostOneLookup
  /\ (~IsNone(nameOp.ticker) /\ LastKey # <<>>) => nameRet = first[LastKey]
  /\ EntriesKept

\* the last call was made with None, "" or a string of whitespace only
EmptyTickerCall == IsNone(nameOp.ticker) \/ Strip(Val(nameOp.ticker)) = <<>>

\* C10: get_company_name called with an empty ticker (None, "", or a ticker
\* that is empty after trimming) returns "Unknown Company", issues no network
\* lookup and leaves the cache as it was.
C10_EmptyTicker ==
  EmptyTickerCall =>
    /\ nameRet = UnknownCompany
    /\ ~nameOp.looked_up
    /\ cache = namePre

\* the part of C10 that the code keeps: None and ""
C10_NoneOrEmptyString ==
  IsFalsy(nameOp.ticker) =>
    /\ nameRet = UnknownCompany
    /\ ~nameOp.looked_up
    /\ cache = namePre

====
